---- MODULE Spec2Model ----
(***************************************************************************)
(* A model of the single-node ledger of src/src/lib.rs: transactions,      *)
(* proof-of-work block headers, block assembly and the Blockchain that     *)
(* owns the chain and the pending pool.                                    *)
(*                                                                         *)
(* A string or byte string is the sequence of its bytes, kept run-length   *)
(* encoded: [b |-> v, n |-> k] is k bytes of value v in a row, and no two  *)
(* neighbouring runs have the same value, so that equal strings are equal  *)
(* sequences.  Characters are their ASCII bytes.  The 64 hex characters    *)
(* that hex::encode gives for the Blake3 digest of a byte string s are the *)
(* single token [hex |-> s]: the digest is kept symbolic (equal digests    *)
(* have equal inputs).  The one thing the program reads inside a digest,   *)
(* its count of leading '0' characters, is a value of the hash function    *)
(* that the model draws when a header is first hashed and remembers        *)
(* afterwards (variable hashed), so that hashing stays a function.         *)
(***************************************************************************)
EXTENDS Integers, Sequences, FiniteSets, TLC

VARIABLES
    chain,        \* Blockchain.chain
    pending,      \* Blockchain.pending_transactions
    difficulty,   \* Blockchain.difficulty
    call,         \* the function that is executing and its argument
    pc,           \* its position: "mining", "mined", or "idle" between calls
    new_block,    \* the block mine_block works on (genesis_block / new_block)
    block_hash,   \* what mine_block returned
    last,         \* the last call that returned: function, argument, result
    now,          \* the last reading of the clock (Utc::now)
    hashed,       \* the leading-zero counts of the header bytes hashed so far
    mined,        \* history: number of mine_pending_transactions calls that returned Ok
    submitted,    \* history: the transactions given to add_transaction, in order
    start         \* history: the header mine_block was called on

vars == <<chain, pending, difficulty, call, pc, new_block, block_hash, last,
          now, hashed, mined, submitted, start>>

----------------------------------------------------------------------------
(* Bounds of the model *)

\* stands for u64::MAX, the largest nonce (lib.rs:227)
MaxNonce == 1
\* clock readings are 0..MaxClock
MaxClock == 1
\* add_transaction is called at most MaxSubmitted times
MaxSubmitted == 2

(* Program constants *)

TRANSACTION_FEE == 1000000
\* the highest difficulty the tests mine at (test_high_difficulty_mining)
TestedDifficulty == 6

----------------------------------------------------------------------------
(* Strings and bytes *)

IsRun(x) == "b" \in DOMAIN x

\* x followed by y, the runs that meet merged into one
Join(x, y) ==
    IF x = <<>> THEN y
    ELSE IF y = <<>> THEN x
    ELSE IF IsRun(x[Len(x)]) /\ IsRun(y[1]) /\ x[Len(x)].b = y[1].b
    THEN SubSeq(x, 1, Len(x) - 1)
            \o <<[b |-> y[1].b, n |-> x[Len(x)].n + y[1].n]>> \o Tail(y)
    ELSE x \o y

\* s followed by t (s and t are bound to their values, so that each is
\* computed once)
Cat(s, t) == CHOOSE r \in { Join(x, y) : x \in {s}, y \in {t} } : TRUE

RECURSIVE Concat(_)
Concat(ss) == IF ss = <<>> THEN <<>> ELSE Cat(Head(ss), Concat(Tail(ss)))

\* the strings of ss one after the other (ss is bound to its value)
CatAll(ss) == CHOOSE r \in { Concat(x) : x \in {ss} } : TRUE

\* k bytes of value v
Bytes(v, k) == IF k = 0 THEN <<>> ELSE <<[b |-> v, n |-> k]>>

Ascii(c) ==
    CASE c = "0" -> 48 [] c = "1" -> 49 [] c = "2" -> 50 [] c = "3" -> 51
      [] c = "4" -> 52 [] c = "5" -> 53 [] c = "6" -> 54 [] c = "7" -> 55
      [] c = "8" -> 56 [] c = "9" -> 57 [] c = "+" -> 43 [] c = "-" -> 45
      [] c = ":" -> 58 [] c = "T" -> 84 [] c = "a" -> 97 [] c = "b" -> 98
      [] c = "c" -> 99 [] c = "d" -> 100 [] c = "p" -> 112 [] c = "s" -> 115
      [] c = "e" -> 101 [] c = "f" -> 102 [] c = "g" -> 103 [] c = "A" -> 65
      [] c = "F" -> 70

\* the string of the characters cs
RECURSIVE Str(_)
Str(cs) == IF cs = <<>> THEN <<>> ELSE Cat(Bytes(Ascii(Head(cs)), 1), Str(Tail(cs)))

\* c.repeat(k)
Repeat(c, k) == Bytes(Ascii(c), k)

\* the number of bytes of s
RECURSIVE StrLen(_)

\* n.to_le_bytes() of an unsigned integer of w bytes, low byte first
RECURSIVE to_le_bytes(_, _)
to_le_bytes(n, w) ==
    IF n = 0 THEN Bytes(0, w)
    ELSE IF w = 0 THEN <<>>
    ELSE Cat(Bytes(n % 256, 1), to_le_bytes(n \div 256, w - 1))

\* n as u32, of an unsigned 64-bit n given as n.hi * 65536 + n.lo with
\* n.lo < 65536: the low 32 bits of n
as_u32(n) == (n.hi % 65536) * 65536 + n.lo

DigitChars == <<"0", "1", "2", "3", "4", "5", "6", "7", "8", "9">>

TwoDigits(n) == Str(<<DigitChars[((n \div 10) % 10) + 1], DigitChars[(n % 10) + 1]>>)

DatePart == Str(<<"2", "0", "2", "4", "-", "0", "1", "-", "0", "1", "T",
                  "0", "0", ":", "0", "0", ":">>)

OffsetPart == Str(<<"+", "0", "0", ":", "0", "0">>)

\* DateTime<Utc>::to_rfc3339 of the instant t seconds after 2024-01-01T00:00:00Z
\* (t < 60): "2024-01-01T00:00:SS+00:00"
to_rfc3339(t) == CatAll(<<DatePart, TwoDigits(t), OffsetPart>>)

\* hex::encode(hasher.finalize().as_bytes()) after hasher.update of s
HexDigest(s) == <<[hex |-> s]>>

\* hex characters of a Blake3 digest
HashLen == 64

StrLen(s) ==
    IF s = <<>> THEN 0
    ELSE (IF IsRun(Head(s)) THEN Head(s).n ELSE HashLen) + StrLen(Tail(s))

\* "0".repeat(64), the genesis parent hash and the merkle root of no transactions
ZeroHash == Repeat("0", HashLen)

Clamp(z) == IF z < 0 THEN 0 ELSE IF z > HashLen THEN HashLen ELSE z

----------------------------------------------------------------------------
(* Transaction *)

\* mutant: the fee is left out of the bytes that are hashed
TransactionBytesNoFee(tx) ==
    CatAll(<<tx.from, tx.to, to_le_bytes(tx.amount, 8), to_le_bytes(tx.nonce, 8),
             to_rfc3339(tx.timestamp)>>)

TransactionBytes(tx) ==
    CatAll(<<tx.from, tx.to, to_le_bytes(tx.amount, 8), to_le_bytes(tx.fee, 8),
             to_le_bytes(tx.nonce, 8), to_rfc3339(tx.timestamp)>>)

TransactionHash(tx) == HexDigest(TransactionBytes(tx))

\* mutant: the id is the hash of the fields and of the signature
TransactionNewHashesSignature(from, to, amount, nonce, signature, t) ==
    LET tx == [txn_id |-> <<>>, from |-> from, to |-> to, amount |-> amount,
               fee |-> TRANSACTION_FEE, nonce |-> nonce, timestamp |-> t,
               signature |-> signature]
    IN  [tx EXCEPT !.txn_id = HexDigest(Cat(TransactionBytes(tx), signature))]

TransactionNew(from, to, amount, nonce, signature, t) ==
    LET tx == [txn_id |-> <<>>, from |-> from, to |-> to, amount |-> amount,
               fee |-> TRANSACTION_FEE, nonce |-> nonce, timestamp |-> t,
               signature |-> signature]
    IN  [tx EXCEPT !.txn_id = TransactionHash(tx)]

\* the transactions callers submit
Transactions ==
    { TransactionNew(Str(<<"a">>), Str(<<"b">>), 1000, 1, Str(<<"s">>), 0),
      TransactionNew(Str(<<"c">>), Str(<<"d">>), 2000, 1, Str(<<"s">>), 0) }

\* Result: Ok(v) and Err(s)
Ok(v) == [ok |-> v]
Err(s) == [err |-> s]

\* n.to_string(), the decimal digits of n
RECURSIVE Decimal(_)
Decimal(n) ==
    IF n < 10 THEN Str(<<DigitChars[n + 1]>>)
    ELSE Cat(Decimal(n \div 10), Str(<<DigitChars[(n % 10) + 1]>>))

get_signing_message(tx) ==
    CatAll(<<tx.from, tx.to, Decimal(tx.amount), Decimal(tx.fee),
             Decimal(tx.nonce), to_rfc3339(tx.timestamp)>>)

\* bytes of an Ed25519 signature
SignatureLen == 64

\* hex characters of an Ed25519 signature: two for each of its bytes
SignatureHexLen == 2 * SignatureLen

\* hex::encode of the Ed25519 signature of the message under the signing
\* key of number key
SignatureHex(key, message) == <<[sighex |-> [key |-> key, message |-> message]]>>

\* the characters of s one by one: a byte, or the i-th character of a digest
\* or of a signature in hex
RECURSIVE Chars(_)
Chars(s) ==
    IF s = <<>> THEN <<>>
    ELSE LET h == Head(s)
         IN  (IF IsRun(h) THEN [i \in 1..h.n |-> [c |-> h.b]]
              ELSE [i \in 1..(IF "sighex" \in DOMAIN h THEN SignatureHexLen
                                ELSE HashLen) |-> [of |-> h, i |-> i]])
             \o Chars(Tail(s))

\* hex accepts 0-9, a-f and A-F
IsHexChar(ch) ==
    IF "of" \in DOMAIN ch THEN TRUE
    ELSE ch.c \in (48..57) \cup (97..102) \cup (65..70)

HexVal(c) == IF c <= 57 THEN c - 48 ELSE IF c >= 97 THEN c - 87 ELSE c - 55

\* the byte the two hex characters a, b stand for
HexByte(a, b) ==
    IF "c" \in DOMAIN a /\ "c" \in DOMAIN b
    THEN [byte |-> 16 * HexVal(a.c) + HexVal(b.c)]
    ELSE [pair |-> <<a, b>>]

\* hex::decode(s)
hex_decode(s) ==
    LET cs == Chars(s)
    IN  IF Len(cs) % 2 = 1 THEN Err("OddLength")
        ELSE IF \E i \in 1..Len(cs) : ~IsHexChar(cs[i])
        THEN Err("InvalidHexCharacter")
        ELSE Ok([k \in 1..(Len(cs) \div 2) |-> HexByte(cs[2 * k - 1], cs[2 * k])])

\* the 64 bytes of the Ed25519 signature of the message under the signing key
SignatureBytes(key, message) == hex_decode(SignatureHex(key, message)).ok

\* VerifyingKey::verify(message, signature) is Ok: the bytes are the
\* signature of this message under the signing key of the verifying key
\* (no other 64 bytes verify)
verify(public_key, message, bytes) == bytes = SignatureBytes(public_key, message)

\* mutant: the signature is checked against the bytes that are hashed
VerifySignatureOverHash(tx, public_key) ==
    LET signature_bytes == hex_decode(tx.signature)
    IN  IF "err" \in DOMAIN signature_bytes THEN signature_bytes
        ELSE IF Len(signature_bytes.ok) # SignatureLen THEN Ok(FALSE)
        ELSE Ok(verify(public_key, TransactionBytes(tx), signature_bytes.ok))

\* Transaction::verify_signature(public_key)
verify_signature(tx, public_key) ==
    LET signature_bytes == hex_decode(tx.signature)
    IN  IF "err" \in DOMAIN signature_bytes THEN signature_bytes
        ELSE IF Len(signature_bytes.ok) # SignatureLen THEN Ok(FALSE)
        ELSE Ok(verify(public_key, get_signing_message(tx), signature_bytes.ok))

----------------------------------------------------------------------------
(* BlockHeader *)

BlockHeaderNew(block_height, parent_hash, merkle_root, d, t) ==
    [block_height |-> block_height, parent_hash |-> parent_hash,
     merkle_root |-> merkle_root, timestamp |-> t, difficulty |-> d, nonce |-> 0]

\* mutant: the difficulty is left out of the bytes hashed
HeaderBytesNoDifficulty(h) ==
    CatAll(<<to_le_bytes(h.block_height, 8), h.parent_hash, h.merkle_root,
             to_rfc3339(h.timestamp), to_le_bytes(h.nonce, 8)>>)

HeaderBytes(h) ==
    CatAll(<<to_le_bytes(h.block_height, 8), h.parent_hash, h.merkle_root,
             to_rfc3339(h.timestamp), to_le_bytes(h.difficulty, 4),
             to_le_bytes(h.nonce, 8)>>)

calculate_hash(h) == HexDigest(HeaderBytes(h))

\* The counts of leading '0' characters the digest of a header can have: the
\* two counts next to the header's target (the largest that misses it and
\* the smallest that meets it), within 0..HashLen.
LeadingZeroOutcomes(h) == { Clamp(h.difficulty - 1), Clamp(h.difficulty) }

\* Over the whole nonce space some nonce meets a target of at most
\* TestedDifficulty characters: the last nonce of a header left to hash, when
\* none of the others met the target, meets it.
LastChance(hs, h) ==
    /\ h.difficulty <= TestedDifficulty
    /\ \A n \in 0..MaxNonce :
          n # h.nonce =>
              \E s \in {HeaderBytes([h EXCEPT !.nonce = n])} :
                  \E e \in hs : e.input = s /\ e.zeros < h.difficulty

\* The count of leading '0' characters in calculate_hash(h): the count drawn
\* before when these bytes s were hashed before, any outcome otherwise.
LeadingZeros(hs, h) ==
    UNION { LET known == { e \in hs : e.input = s }
            IN  IF known # {}
                THEN { e.zeros : e \in known }
                ELSE { z \in LeadingZeroOutcomes(h) :
                         LastChance(hs, h) => z >= h.difficulty }
            : s \in {HeaderBytes(h)} }

Hashing(hs, h, z) ==
    hs \cup { [input |-> HeaderBytes(h), zeros |-> z, met |-> z >= h.difficulty] }

\* The counts kept when a run of mine_block ends: those of the headers that
\* met their target.  The headers the run rejected are hashed by no later
\* call (every later header has another block_height, the first eight of its
\* bytes), so their counts are read by nothing and are dropped.
Sealed(hs) == { e \in hs : e.met }

\* mutant: the comparison is off by one and accepts one '0' too few
MeetsOneShort(h, z) == z + 1 >= h.difficulty

\* mutant: the target is capped at the length of the digest
MeetsCapped(h, z) == z >= Clamp(h.difficulty)

\* mutant: more leading zeros than the difficulty are asked for
MeetsStrict(h, z) == z > h.difficulty

\* meets_difficulty_target, given the count z of leading zeros of the hash
meets_difficulty_target(h, z) == z >= h.difficulty

----------------------------------------------------------------------------
(* Block *)

\* A Vec<Transaction> is the sequence of its transactions; a list too long
\* to write out holds entries that stand for vec![item; blocks * 65536].
IsRepeat(e) == "blocks" \in DOMAIN e

\* the length r of a list, with the entry e in front of the list
LenWith(e, r) ==
    LET lo == r.lo + (IF IsRepeat(e) THEN 0 ELSE 1)
    IN  [hi |-> r.hi + (IF IsRepeat(e) THEN e.blocks ELSE 0) + (lo \div 65536),
         lo |-> lo % 65536]

\* transactions.len(), as hi * 65536 + lo with lo < 65536
RECURSIVE VecLen(_)
VecLen(txs) ==
    IF txs = <<>> THEN [hi |-> 0, lo |-> 0]
    ELSE CHOOSE n \in { LenWith(Head(txs), r) : r \in {VecLen(Tail(txs))} } : TRUE

\* the txn_id bytes of an entry of the list
EntryIds(e) ==
    IF IsRepeat(e) THEN <<[repeat |-> e.item.txn_id, blocks |-> e.blocks]>>
    ELSE e.txn_id

RECURSIVE ConcatIds(_)
ConcatIds(txs) ==
    IF txs = <<>> THEN <<>> ELSE Cat(EntryIds(Head(txs)), ConcatIds(Tail(txs)))

\* mutant: the ids are computed again from the fields of the transactions
MerkleRootRecomputed(txs) ==
    IF txs = <<>> THEN ZeroHash
    ELSE HexDigest(ConcatIds([i \in 1..Len(txs) |->
                                [txs[i] EXCEPT !.txn_id = TransactionHash(txs[i])]]))

calculate_merkle_root(txs) ==
    IF txs = <<>> THEN ZeroHash ELSE HexDigest(ConcatIds(txs))

BlockNew(block_height, parent_hash, txs, d, t) ==
    [header |-> BlockHeaderNew(block_height, parent_hash, calculate_merkle_root(txs), d, t),
     transaction_count |-> as_u32(VecLen(txs)),
     transactions |-> txs]

NoBlock == [none |-> TRUE]

\* mutant: the nonce saturates at its maximum instead of starting over
NextAttemptSaturating(h, t) ==
    IF h.nonce = MaxNonce THEN h ELSE [h EXCEPT !.nonce = h.nonce + 1]

\* mutant: the nonce starts over and the timestamp is kept
NextAttemptKeepsTime(h, t) ==
    IF h.nonce = MaxNonce THEN [h EXCEPT !.nonce = 0]
    ELSE [h EXCEPT !.nonce = h.nonce + 1]

\* mutant: the timestamp is refreshed at every turn
NextAttemptRefreshesAlways(h, t) ==
    IF h.nonce = MaxNonce THEN [h EXCEPT !.nonce = 0, !.timestamp = t]
    ELSE [h EXCEPT !.nonce = h.nonce + 1, !.timestamp = t]

\* mutant: after the largest nonce the search goes on at the nonce after 0
NextAttemptSkipsZero(h, t) ==
    IF h.nonce = MaxNonce THEN [h EXCEPT !.nonce = 1, !.timestamp = t]
    ELSE [h EXCEPT !.nonce = h.nonce + 1]

\* the header mine_block tests next after the header h missed its target;
\* t is the clock reading taken when the nonce space is used up
NextAttempt(h, t) ==
    IF h.nonce = MaxNonce
    THEN [h EXCEPT !.timestamp = t, !.nonce = 0]
    ELSE [h EXCEPT !.nonce = h.nonce + 1]

----------------------------------------------------------------------------
(* Blockchain *)

Unit == [unit |-> TRUE]
Calling(f, a) == [f |-> f, arg |-> a]
NoCall == Calling("none", Unit)
Returned(f, a, r) == [op |-> f, arg |-> a, ret |-> r]

\* the u32 difficulties the ledger is constructed with: none, the highest
\* the tests mine at, and one more than a digest has characters
Difficulties ==
    {0, TestedDifficulty, HashLen + 1}

\* mutant: the genesis parent hash literal is one '0' short
BlockchainNewShortSentinel(d, t) ==
    [chain |-> <<>>, pending_transactions |-> <<>>, difficulty |-> d,
     genesis_block |-> BlockNew(0, Repeat("0", HashLen - 1), <<>>, d, t)]

\* Blockchain::new(d) up to its call of mine_block, at the clock reading t
BlockchainNew(d, t) ==
    [chain |-> <<>>, pending_transactions |-> <<>>, difficulty |-> d,
     genesis_block |-> BlockNew(0, ZeroHash, <<>>, d, t)]

\* mutant: the front of the chain instead of its back
get_first_block(c) == IF c = <<>> THEN NoBlock ELSE c[1]

get_latest_block(c) == IF c = <<>> THEN NoBlock ELSE c[Len(c)]

\* mutant: the pool is not checked
MineErrorNoPoolCheck(p, c) ==
    IF get_latest_block(c) = NoBlock THEN "No blocks in chain" ELSE ""

\* the error mine_pending_transactions returns before it builds a block,
\* "" when it goes on
MineError(p, c) ==
    IF p = <<>> THEN "No pending transactions to mine"
    ELSE IF get_latest_block(c) = NoBlock THEN "No blocks in chain"
    ELSE ""

\* mutant: the parent hash is copied from the latest header's own field
MineCandidateParentField(c, p, d, t) ==
    LET latest_block == get_latest_block(c)
    IN  BlockNew(latest_block.header.block_height + 1,
                 latest_block.header.parent_hash, p, d, t)

\* mutant: the pool is taken last transaction first
MineCandidateReversed(c, p, d, t) ==
    LET latest_block == get_latest_block(c)
    IN  BlockNew(latest_block.header.block_height + 1,
                 calculate_hash(latest_block.header),
                 [i \in 1..Len(p) |-> p[Len(p) + 1 - i]], d, t)

\* mutant: the new block takes the height of the latest block
MineCandidateSameHeight(c, p, d, t) ==
    LET latest_block == get_latest_block(c)
    IN  BlockNew(latest_block.header.block_height,
                 calculate_hash(latest_block.header), p, d, t)

\* mutant: the new block asks for no leading zero
MineCandidateNoTarget(c, p, d, t) ==
    LET latest_block == get_latest_block(c)
    IN  BlockNew(latest_block.header.block_height + 1,
                 calculate_hash(latest_block.header), p, 0, t)

\* the block mine_pending_transactions builds on the chain c from the pool p
MineCandidate(c, p, d, t) ==
    LET latest_block == get_latest_block(c)
    IN  BlockNew(latest_block.header.block_height + 1,
                 calculate_hash(latest_block.header), p, d, t)

\* mutant: the pool is not cleared
MineCommitKeepsPool(c, p, b) == [chain |-> Append(c, b), pending |-> p]

\* mutant: a copy of the block taken before mine_block ran is pushed
MineCommitUnmined(c, p, b) ==
    [chain |-> Append(c, [b EXCEPT !.header.nonce = 0]), pending |-> <<>>]

\* mutant: the pool is cleared and the block is not pushed
MineCommitDropsBlock(c, p, b) == [chain |-> c, pending |-> <<>>]

\* mutant: the new block takes the place of the latest block
MineCommitReplaces(c, p, b) ==
    [chain |-> Append(SubSeq(c, 1, Len(c) - 1), b), pending |-> <<>>]

\* the chain and the pool when mine_pending_transactions returns Ok
MineCommit(c, p, b) == [chain |-> Append(c, b), pending |-> <<>>]

\* mutant: the parent hash of a block is not compared
RECURSIVE ValidFromNoLink(_, _, _)
ValidFromNoLink(c, hs, i) ==
    IF i > Len(c) THEN {TRUE}
    ELSE LET zs == LeadingZeros(hs, c[i].header)
         IN  (IF \E z \in zs : ~meets_difficulty_target(c[i].header, z)
              THEN {FALSE} ELSE {})
             \cup
             (IF \E z \in zs : meets_difficulty_target(c[i].header, z)
              THEN ValidFromNoLink(c, hs, i + 1) ELSE {})

\* mutant: the difficulty target of a block is not tested
RECURSIVE ValidFromNoTarget(_, _, _)
ValidFromNoTarget(c, hs, i) ==
    IF i > Len(c) THEN {TRUE}
    ELSE IF c[i].header.parent_hash # calculate_hash(c[i - 1].header) THEN {FALSE}
    ELSE ValidFromNoTarget(c, hs, i + 1)

\* mutant: the merkle root of a block is compared with its transactions
RECURSIVE ValidFromMerkle(_, _, _)
ValidFromMerkle(c, hs, i) ==
    IF i > Len(c) THEN {TRUE}
    ELSE IF c[i].header.parent_hash # calculate_hash(c[i - 1].header) THEN {FALSE}
    ELSE IF c[i].header.merkle_root # calculate_merkle_root(c[i].transactions)
    THEN {FALSE}
    ELSE LET zs == LeadingZeros(hs, c[i].header)
         IN  (IF \E z \in zs : ~meets_difficulty_target(c[i].header, z)
              THEN {FALSE} ELSE {})
             \cup
             (IF \E z \in zs : meets_difficulty_target(c[i].header, z)
              THEN ValidFromMerkle(c, hs, i + 1) ELSE {})

\* is_chain_valid: the results it can return on the chain c, given the
\* digests hashed so far (one result unless c holds a header never hashed)
RECURSIVE ValidFrom(_, _, _)
ValidFrom(c, hs, i) ==
    IF i > Len(c) THEN {TRUE}
    ELSE IF c[i].header.parent_hash # calculate_hash(c[i - 1].header) THEN {FALSE}
    ELSE LET zs == LeadingZeros(hs, c[i].header)
         IN  (IF \E z \in zs : ~meets_difficulty_target(c[i].header, z)
              THEN {FALSE} ELSE {})
             \cup
             (IF \E z \in zs : meets_difficulty_target(c[i].header, z)
              THEN ValidFrom(c, hs, i + 1) ELSE {})

is_chain_valid(c, hs) == ValidFrom(c, hs, 2)

----------------------------------------------------------------------------
(* Actions *)

\* Blockchain::new(d), entered: the genesis block is built and mine_block
\* is about to test it
Init ==
    \E d \in Difficulties, t \in 0..MaxClock :
        LET blockchain == BlockchainNew(d, t)
        IN  /\ now = t
            /\ chain = blockchain.chain
            /\ pending = blockchain.pending_transactions
            /\ difficulty = blockchain.difficulty
            /\ new_block = blockchain.genesis_block
            /\ start = blockchain.genesis_block.header
            /\ call = Calling("new", [difficulty |-> d])
            /\ pc = "mining"
            /\ block_hash = <<>>
            /\ last = Returned("none", Unit, Unit)
            /\ hashed = {}
            /\ mined = 0
            /\ submitted = <<>>

\* mine_block, one turn of its loop: the header is hashed; when it meets its
\* target its hash is returned, otherwise the next header is set up
mine_block ==
    /\ pc = "mining"
    /\ \E z \in LeadingZeros(hashed, new_block.header) :
          /\ IF meets_difficulty_target(new_block.header, z)
             THEN /\ hashed' = Sealed(Hashing(hashed, new_block.header, z))
                  /\ block_hash' = calculate_hash(new_block.header)
                  /\ pc' = "mined"
                  /\ UNCHANGED <<new_block, now>>
             ELSE /\ hashed' = Hashing(hashed, new_block.header, z)
                  /\ \E t \in now..MaxClock :
                        /\ now' = IF new_block.header.nonce = MaxNonce THEN t ELSE now
                        /\ new_block' = [new_block EXCEPT !.header = NextAttempt(@, now')]
                  /\ UNCHANGED <<pc, block_hash>>
    /\ UNCHANGED <<chain, pending, difficulty, call, last, mined, submitted, start>>

\* mutant: the mined genesis block is not pushed
new_return_no_push ==
    /\ call.f = "new"
    /\ pc = "mined"
    /\ call' = NoCall
    /\ pc' = "idle"
    /\ new_block' = NoBlock
    /\ last' = Returned("new", call.arg, Unit)
    /\ UNCHANGED <<chain, pending, difficulty, block_hash, now, hashed, mined,
                   submitted, start>>

\* Blockchain::new: the mined genesis block is pushed and the ledger returned
new_return ==
    /\ call.f = "new"
    /\ pc = "mined"
    /\ chain' = Append(chain, new_block)
    /\ call' = NoCall
    /\ pc' = "idle"
    /\ new_block' = NoBlock
    /\ last' = Returned("new", call.arg, Unit)
    /\ UNCHANGED <<pending, difficulty, block_hash, now, hashed, mined, submitted, start>>

\* mutant: a transaction that is already in the pool is not added again
add_transaction_once(tx) ==
    /\ pc = "idle"
    /\ Len(submitted) < MaxSubmitted
    /\ pending' = IF \E i \in 1..Len(pending) : pending[i] = tx
                  THEN pending ELSE Append(pending, tx)
    /\ submitted' = Append(submitted, tx)
    /\ last' = Returned("add_transaction", tx, Unit)
    /\ UNCHANGED <<chain, difficulty, call, pc, new_block, block_hash, now,
                   hashed, mined, start>>

\* mutant: the transaction is put at the front of the pool
add_transaction_front(tx) ==
    /\ pc = "idle"
    /\ Len(submitted) < MaxSubmitted
    /\ pending' = <<tx>> \o pending
    /\ submitted' = Append(submitted, tx)
    /\ last' = Returned("add_transaction", tx, Unit)
    /\ UNCHANGED <<chain, difficulty, call, pc, new_block, block_hash, now,
                   hashed, mined, start>>

\* Blockchain::add_transaction(tx)
add_transaction(tx) ==
    /\ pc = "idle"
    /\ Len(submitted) < MaxSubmitted
    /\ pending' = Append(pending, tx)
    /\ submitted' = Append(submitted, tx)
    /\ last' = Returned("add_transaction", tx, Unit)
    /\ UNCHANGED <<chain, difficulty, call, pc, new_block, block_hash, now,
                   hashed, mined, start>>

\* mine_pending_transactions returning an error
mine_pending_transactions_err ==
    /\ pc = "idle"
    /\ MineError(pending, chain) # ""
    /\ last' = Returned("mine_pending_transactions", Unit,
                         Err(MineError(pending, chain)))
    /\ UNCHANGED <<chain, pending, difficulty, call, pc, new_block, block_hash,
                   now, hashed, mined, submitted, start>>

\* mine_pending_transactions up to its call of mine_block
mine_pending_transactions_call ==
    /\ pc = "idle"
    /\ MineError(pending, chain) = ""
    /\ \E t \in now..MaxClock :
          /\ now' = t
          /\ new_block' = MineCandidate(chain, pending, difficulty, t)
    /\ start' = new_block'.header
    /\ call' = Calling("mine_pending_transactions", Unit)
    /\ pc' = "mining"
    /\ UNCHANGED <<chain, pending, difficulty, block_hash, last, hashed, mined,
                   submitted>>

\* mine_pending_transactions after mine_block returned
mine_pending_transactions_return ==
    /\ call.f = "mine_pending_transactions"
    /\ pc = "mined"
    /\ chain' = MineCommit(chain, pending, new_block).chain
    /\ pending' = MineCommit(chain, pending, new_block).pending
    /\ last' = Returned("mine_pending_transactions", Unit, Ok(block_hash))
    /\ mined' = mined + 1
    /\ call' = NoCall
    /\ pc' = "idle"
    /\ new_block' = NoBlock
    /\ UNCHANGED <<difficulty, block_hash, now, hashed, submitted, start>>

\* mine_block called by itself, returning to its caller
mine_block_return ==
    /\ call.f = "mine_block"
    /\ pc = "mined"
    /\ call' = NoCall
    /\ pc' = "idle"
    /\ last' = Returned("mine_block", call.arg, block_hash)
    /\ UNCHANGED <<chain, pending, difficulty, new_block, block_hash, now, hashed,
                   mined, submitted, start>>

Next ==
    \/ mine_block
    \/ new_return
    \/ \E tx \in Transactions : add_transaction(tx)
    \/ mine_pending_transactions_err
    \/ mine_pending_transactions_call
    \/ mine_pending_transactions_return

Spec == Init /\ [][Next]_vars

\* mine_pending_transactions and Blockchain::new run on once mine_block runs:
\* the loop takes its next turn, and a call whose mining ended returns
LiveSpec ==
    /\ Spec
    /\ WF_vars(mine_block)
    /\ WF_vars(new_return)
    /\ WF_vars(mine_pending_transactions_return)

----------------------------------------------------------------------------
(* The ledger with the calls that take &self *)

\* Blockchain::is_chain_valid
is_chain_valid_return ==
    /\ pc = "idle"
    /\ \E valid \in is_chain_valid(chain, hashed) :
          last' = Returned("is_chain_valid", Unit, [valid |-> valid])
    /\ UNCHANGED <<chain, pending, difficulty, call, pc, new_block, block_hash,
                   now, hashed, mined, submitted, start>>

\* Blockchain::get_stats
get_stats ==
    /\ pc = "idle"
    /\ last' = Returned("get_stats", Unit,
                         [blocks |-> Len(chain), pending |-> Len(pending),
                          difficulty |-> difficulty])
    /\ UNCHANGED <<chain, pending, difficulty, call, pc, new_block, block_hash,
                   now, hashed, mined, submitted, start>>

\* what std::fs::write and Command::spawn did, in the order of the code: the
\* viewer is spawned only after the file was written
SinkOutcomes ==
    { [written |-> w, spawned |-> sp] : w, sp \in BOOLEAN } \ { [written |-> FALSE, spawned |-> TRUE] }

\* a call of display_block_in_terminal that has returned r, with what it
\* did to the file and the terminal
Displayed(block, r, sink) ==
    [op |-> "display_block_in_terminal", arg |-> block, ret |-> r, sink |-> sink]

\* mutant: a failed write is returned to the caller and the pool is dropped
display_block_in_terminal_propagates(sink) ==
    /\ pc = "idle"
    /\ last' = Displayed(get_latest_block(chain),
                          IF sink.written THEN Unit ELSE Err("write failed"), sink)
    /\ pending' = IF sink.written THEN pending ELSE <<>>
    /\ UNCHANGED <<chain, difficulty, call, pc, new_block, block_hash,
                   now, hashed, mined, submitted, start>>

\* Blockchain::display_block_in_terminal of the latest block: it writes the
\* file and opens the terminal, or fails to (sink), and returns nothing
display_block_in_terminal(sink) ==
    /\ pc = "idle"
    /\ last' = Displayed(get_latest_block(chain), Unit, sink)
    /\ UNCHANGED <<chain, pending, difficulty, call, pc, new_block, block_hash,
                   now, hashed, mined, submitted, start>>

\* the ledger and every call that takes &self, the file and the terminal
\* working
NextReads ==
    \/ Next
    \/ is_chain_valid_return
    \/ get_stats
    \/ display_block_in_terminal([written |-> TRUE, spawned |-> TRUE])

SpecReads == Init /\ [][NextReads]_vars

\* the ledger and display_block_in_terminal, the file and the terminal
\* working or failing
NextDisplay ==
    \/ Next
    \/ \E sink \in SinkOutcomes : display_block_in_terminal(sink)

SpecDisplay == Init /\ [][NextDisplay]_vars

----------------------------------------------------------------------------
(* mine_block called on a block of the caller's, whatever its nonce *)

\* the blocks mine_block is called on: built by Block::new, the nonce then
\* set by the caller (tests.rs: block.header.nonce = u64::MAX - 100)
MineBlocks ==
    { [b EXCEPT !.header.nonce = n] :
        b \in { BlockNew(1, Str(<<"p">>), txs, d, t) :
                  txs \in {<<>>} \cup { <<tx>> : tx \in Transactions },
                  d \in Difficulties \cup {1, HashLen},
                  t \in 0..MaxClock },
        n \in 0..MaxNonce }

InitMine ==
    \E b \in MineBlocks :
        /\ now \in b.header.timestamp..MaxClock
        /\ new_block = b
        /\ start = b.header
        /\ call = Calling("mine_block", b)
        /\ pc = "mining"
        /\ chain = <<>>
        /\ pending = <<>>
        /\ difficulty = 0
        /\ block_hash = <<>>
        /\ last = Returned("none", Unit, Unit)
        /\ hashed = {}
        /\ mined = 0
        /\ submitted = <<>>

NextMine ==
    \/ mine_block
    \/ mine_block_return

SpecMine == InitMine /\ [][NextMine]_vars

LiveSpecMine == SpecMine /\ WF_vars(mine_block) /\ WF_vars(mine_block_return)

----------------------------------------------------------------------------
(* Block::new on its own *)

\* the transactions Block::new is called with: the ones Transaction::new
\* made, and one built as a struct literal whose txn_id is the empty string
\* (tests.rs: Transaction { txn_id: String::new(), .. })
BuildTransactions ==
    Transactions \cup
    { [TransactionNew(Str(<<"a">>), Str(<<"b">>), 1000, 1, Str(<<"s">>), 0)
         EXCEPT !.txn_id = <<>>] }

TransactionLists ==
    UNION { [1..n -> BuildTransactions] : n \in 0..MaxSubmitted }

InitBuild ==
    \E txs \in TransactionLists, d \in {0, TestedDifficulty},
       height \in 0..1, t \in 0..MaxClock :
        /\ now = t
        /\ call = Calling("Block::new",
                          [block_height |-> height, parent_hash |-> Str(<<"p">>),
                           transactions |-> txs, difficulty |-> d])
        /\ pc = "building"
        /\ new_block = NoBlock
        /\ start = NoBlock
        /\ chain = <<>>
        /\ pending = <<>>
        /\ difficulty = 0
        /\ block_hash = <<>>
        /\ last = Returned("none", Unit, Unit)
        /\ hashed = {}
        /\ mined = 0
        /\ submitted = <<>>

\* Block::new(block_height, parent_hash, transactions, difficulty)
block_new ==
    /\ call.f = "Block::new"
    /\ pc = "building"
    /\ new_block' = BlockNew(call.arg.block_height, call.arg.parent_hash,
                             call.arg.transactions, call.arg.difficulty, now)
    /\ call' = NoCall
    /\ pc' = "idle"
    /\ last' = Returned("Block::new", call.arg, new_block')
    /\ UNCHANGED <<chain, pending, difficulty, block_hash, now, hashed, mined,
                   submitted, start>>

NextBuild == block_new

SpecBuild == InitBuild /\ [][NextBuild]_vars

\* the lists of tests.rs and longer ones: a transaction, 65536 copies of it,
\* and 65536 * 65536 copies of it (a Vec holds up to isize::MAX bytes)
LongEntries ==
    LET tx == TransactionNew(Str(<<"a">>), Str(<<"b">>), 1000, 1, Str(<<"s">>), 0)
    IN  {tx, [item |-> tx, blocks |-> 1], [item |-> tx, blocks |-> 65536]}

LongLists == UNION { [1..n -> LongEntries] : n \in 0..MaxSubmitted }

InitBuildLong ==
    \E txs \in LongLists, d \in {0, TestedDifficulty},
       height \in 0..1, t \in 0..MaxClock :
        /\ now = t
        /\ call = Calling("Block::new",
                          [block_height |-> height, parent_hash |-> Str(<<"p">>),
                           transactions |-> txs, difficulty |-> d])
        /\ pc = "building"
        /\ new_block = NoBlock
        /\ start = NoBlock
        /\ chain = <<>>
        /\ pending = <<>>
        /\ difficulty = 0
        /\ block_hash = <<>>
        /\ last = Returned("none", Unit, Unit)
        /\ hashed = {}
        /\ mined = 0
        /\ submitted = <<>>

SpecBuildLong == InitBuildLong /\ [][NextBuild]_vars

----------------------------------------------------------------------------
(* is_chain_valid on its own *)

\* the digests hashed so far, and with them those of the headers of c from
\* block i on, in every way the hash function can turn out
RECURSIVE Completions(_, _, _)
Completions(c, hs, i) ==
    IF i > Len(c) THEN {hs}
    ELSE UNION { Completions(c, Hashing(hs, c[i].header, z), i + 1) :
                   z \in LeadingZeros(hs, c[i].header) }

\* every block of c after the first carries the hash of the one before it
Linked(c) ==
    \A i \in 2..Len(c) : c[i].header.parent_hash = calculate_hash(c[i - 1].header)

\* the blocks of c from the one of index first on meet their targets
MeetTargets(c, hs, first) ==
    \A i \in first..Len(c) :
        \A z \in LeadingZeros(hs, c[i].header) : z >= c[i].header.difficulty

\* the chains is_chain_valid is called on, tampered ones included: up to
\* as many blocks as the ledger reaches, each built by Block::new with any
\* difficulty and, as parent hash, the hash of the block before it (the
\* sentinel for the first) or the empty string
RECURSIVE ValidateChains(_)
ValidateChains(n) ==
    IF n = 0 THEN {<<>>}
    ELSE { Append(c, BlockNew(Len(c), parent, <<>>, d, 0)) :
             c \in ValidateChains(n - 1),
             parent \in {<<>>} \cup (IF n = 1 THEN {ZeroHash} ELSE {}),
             d \in Difficulties }
         \cup
         UNION { { Append(c, BlockNew(Len(c), calculate_hash(c[Len(c)].header),
                                      <<>>, d, 0)) : d \in Difficulties } :
                 c \in ValidateChains(n - 1) \ {<<>>} }

InitValidate ==
    \E n \in 1..(MaxSubmitted + 1) :
      \E c \in ValidateChains(n) :
        \E hs \in Completions(c, {}, 1) :
            /\ chain = c
            /\ hashed = hs
            /\ difficulty = c[1].header.difficulty
            /\ pending = <<>>
            /\ now = 0
            /\ call = NoCall
            /\ pc = "idle"
            /\ new_block = NoBlock
            /\ start = NoBlock
            /\ block_hash = <<>>
            /\ last = Returned("none", Unit, Unit)
            /\ mined = 0
            /\ submitted = <<>>

NextValidate == is_chain_valid_return

SpecValidate == InitValidate /\ [][NextValidate]_vars

----------------------------------------------------------------------------
(* Transaction::verify_signature on its own *)

\* numbers of the Ed25519 key pairs
Keys == {1, 2}

\* the signature strings a transaction is given: not hex (an odd number of
\* characters, a character that is no hex digit), hex of another length than
\* 64 bytes, and hex of 64 bytes: no signature, the signature of the signing
\* message or of the hashed bytes under either key
SignatureStrings(tx) ==
    { <<>>, Str(<<"s">>), Str(<<"a", "b", "c">>), Repeat("g", SignatureHexLen),
      Str(<<"a", "b">>), Repeat("A", SignatureHexLen + 2),
      Repeat("0", SignatureHexLen), Repeat("F", SignatureHexLen),
      Cat(SignatureHex(1, get_signing_message(tx)), Str(<<"0", "0">>)),
      SignatureHex(1, TransactionBytes(tx)) }
    \cup { SignatureHex(k, get_signing_message(tx)) : k \in Keys }

InitVerify ==
    \E t \in 0..MaxClock, amount \in {0, 1000}, public_key \in Keys :
      \E signature \in SignatureStrings(
                            TransactionNew(Str(<<"a">>), Str(<<"b">>), amount, 1, <<>>, t)) :
        LET tx == [TransactionNew(Str(<<"a">>), Str(<<"b">>), amount, 1, <<>>, t)
                     EXCEPT !.signature = signature]
        IN  /\ now = t
            /\ pending = <<tx>>
            /\ call = Calling("verify_signature", [public_key |-> public_key])
            /\ pc = "verifying"
            /\ chain = <<>>
            /\ difficulty = 0
            /\ new_block = NoBlock
            /\ start = NoBlock
            /\ block_hash = <<>>
            /\ last = Returned("none", Unit, Unit)
            /\ hashed = {}
            /\ mined = 0
            /\ submitted = <<>>

\* Transaction::verify_signature(&self, public_key) on the transaction
\* held in pending
verify_signature_return ==
    /\ call.f = "verify_signature"
    /\ pc = "verifying"
    /\ last' = Returned("verify_signature", call.arg,
                         verify_signature(pending[1], call.arg.public_key))
    /\ call' = NoCall
    /\ pc' = "idle"
    /\ UNCHANGED <<chain, pending, difficulty, new_block, block_hash, now, hashed,
                   mined, submitted, start>>

NextVerify == verify_signature_return

SpecVerify == InitVerify /\ [][NextVerify]_vars

\* the records whose signatures are verified: senders and recipients that
\* share characters at their joint, amounts and fees that share digits
SignedRecords ==
    { [txn_id |-> <<>>, from |-> from, to |-> to, amount |-> amount, fee |-> fee,
       nonce |-> 0, timestamp |-> t, signature |-> <<>>] :
        from \in {Str(<<"a">>), Str(<<"a", "b">>)},
        to \in {Str(<<"c">>), Str(<<"b", "c">>)},
        amount \in {1, 10}, fee \in {0, 1}, t \in 0..MaxClock }

\* verify_signature is called on a record that carries a signature of its
\* own signing message, made with either key
InitCanon ==
    \E record \in SignedRecords, key \in Keys, public_key \in Keys :
        LET tx == [record EXCEPT
                     !.signature = SignatureHex(key, get_signing_message(record))]
        IN  /\ now = tx.timestamp
            /\ pending = <<tx>>
            /\ call = Calling("verify_signature", [public_key |-> public_key])
            /\ pc = "verifying"
            /\ chain = <<>>
            /\ difficulty = 0
            /\ new_block = NoBlock
            /\ start = NoBlock
            /\ block_hash = <<>>
            /\ last = Returned("none", Unit, Unit)
            /\ hashed = {}
            /\ mined = 0
            /\ submitted = <<>>

SpecCanon == InitCanon /\ [][NextVerify]_vars

----------------------------------------------------------------------------
(* Transaction::new and Transaction::calculate_hash on their own *)

\* the largest integer the checker holds, standing for u64::MAX
LargestAmount == 2147483647

\* the strings of the tests: empty, short ones, and "a".repeat(10000)
Froms == {<<>>, Str(<<"a">>), Str(<<"a", "b">>), Repeat("a", 10000)}
Tos == {<<>>, Str(<<"c">>), Str(<<"b", "c">>), Repeat("a", 10000)}
Amounts == {0, 1000, LargestAmount}
Nonces == {0, 1}
Fees == {TRANSACTION_FEE, 0}
Signatures == {<<>>, Str(<<"s">>)}

InitCreate ==
    \E from \in Froms, to \in Tos, amount \in Amounts, nonce \in Nonces,
       signature \in Signatures, t \in 0..MaxClock :
        /\ now = t
        /\ call = Calling("Transaction::new",
                          [from |-> from, to |-> to, amount |-> amount,
                           nonce |-> nonce, signature |-> signature])
        /\ pc = "creating"
        /\ pending = <<>>
        /\ chain = <<>>
        /\ difficulty = 0
        /\ new_block = NoBlock
        /\ start = NoBlock
        /\ block_hash = <<>>
        /\ last = Returned("none", Unit, Unit)
        /\ hashed = {}
        /\ mined = 0
        /\ submitted = <<>>

\* Transaction::new(from, to, amount, nonce, signature); the caller keeps
\* the record (in pending)
transaction_new ==
    /\ call.f = "Transaction::new"
    /\ pc = "creating"
    /\ LET tx == TransactionNew(call.arg.from, call.arg.to, call.arg.amount,
                                call.arg.nonce, call.arg.signature, now)
       IN  /\ pending' = <<tx>>
           /\ last' = Returned("Transaction::new", call.arg, tx)
    /\ call' = NoCall
    /\ pc' = "created"
    /\ UNCHANGED <<chain, difficulty, new_block, block_hash, now, hashed, mined,
                   submitted, start>>

\* Transaction::calculate_hash(&self) of the record kept, or of one written
\* as a struct literal with the same fields and another fee
calculate_hash_return ==
    /\ pc = "created"
    /\ \E fee \in Fees :
          LET tx == [pending[1] EXCEPT !.fee = fee]
          IN  last' = Returned("calculate_hash", tx, [digest |-> TransactionHash(tx)])
    /\ pc' = "idle"
    /\ UNCHANGED <<chain, pending, difficulty, call, new_block, block_hash, now,
                   hashed, mined, submitted, start>>

NextCreate == transaction_new \/ calculate_hash_return

SpecCreate == InitCreate /\ [][NextCreate]_vars

----------------------------------------------------------------------------
(* Properties *)

IsOk(r) == "ok" \in DOMAIN r
Constructed == chain # <<>>
MinePending == "mine_pending_transactions"
EmptyPool == "No pending transactions to mine"

\* C1: in every reachable state every block after the first carries, as its
\* parent_hash, the hash of the header of the block before it.
C1_ParentHashLinked ==
    \A i \in 2..Len(chain) :
        chain[i].header.parent_hash = calculate_hash(chain[i - 1].header)

C1_Witness == Len(chain) >= 3 /\ chain[3].header.parent_hash # chain[2].header.parent_hash

\* C2: in every reachable state the hash of every block of the chain, the
\* genesis block included, has at least header.difficulty leading '0's.
C2_BlocksMeetTarget ==
    \A i \in 1..Len(chain) :
        \A z \in LeadingZeros(hashed, chain[i].header) :
            z >= chain[i].header.difficulty

C2_Witness ==
    /\ Len(chain) >= 2
    /\ difficulty >= 1
    /\ chain[1].header.nonce > 0
    /\ chain[2].header.nonce > 0

\* C3: is_chain_valid returns true in every state the public operations
\* reach, after calls that succeeded and calls that failed.
C3_AlwaysValid == call.f = "none" => is_chain_valid(chain, hashed) = {TRUE}

C3_Witness ==
    /\ call.f = "none"
    /\ last.op = MinePending
    /\ ~IsOk(last.ret)
    /\ Len(chain) >= 3

\* C4: right after Blockchain::new(d) returns, the chain is the genesis block
\* alone, the pool is empty, the difficulty is d, and the genesis block has
\* height 0, 64 '0' characters as parent hash, no transactions, a hash that
\* meets its target, and is_chain_valid is true.
C4_FreshLedger ==
    last.op = "new" =>
        /\ Len(chain) = 1
        /\ pending = <<>>
        /\ difficulty = last.arg.difficulty
        /\ chain[1].header.block_height = 0
        /\ chain[1].header.parent_hash = <<[b |-> 48, n |-> 64]>>
        /\ StrLen(chain[1].header.parent_hash) = 64
        /\ chain[1].transactions = <<>>
        /\ \A z \in LeadingZeros(hashed, chain[1].header) :
               z >= chain[1].header.difficulty
        /\ is_chain_valid(chain, hashed) = {TRUE}

C4_Witness == last.op = "new" /\ difficulty = TestedDifficulty /\ call.f = "none"

\* C5: a call of mine_pending_transactions on an empty pool returns the
\* error "No pending transactions to mine", starts no mining, and leaves the
\* chain and the pool as they were.
C5_EmptyPoolError ==
    [][ ( /\ pc = "idle"
          /\ pending = <<>>
          /\ \/ call'.f = MinePending
             \/ last'.op = MinePending )
        => ( /\ last'.ret = Err(EmptyPool)
             /\ chain' = chain
             /\ pending' = pending
             /\ call' = call
             /\ pc' = "idle"
             /\ new_block' = new_block
             /\ hashed' = hashed ) ]_vars

C5_Witness ==
    /\ last.op = MinePending
    /\ last.ret = Err(EmptyPool)
    /\ Len(chain) >= 2
    /\ pending = <<>>

\* C6: once the ledger is constructed, the chain has one block more than
\* the number of mine_pending_transactions calls that returned Ok, and the
\* pool is empty right after each such call.
C6_ChainLength ==
    Constructed =>
        /\ Len(chain) = 1 + mined
        /\ (call.f = "none" /\ last.op = MinePending /\ IsOk(last.ret))
               => pending = <<>>

C6_Witness ==
    /\ mined = 2
    /\ call.f = "none"
    /\ last.op = MinePending
    /\ IsOk(last.ret)

\* C7: when mine_block has returned, from whatever nonce it started, the
\* digest it returned is the hash of the header as it left it, and that
\* digest has at least header.difficulty leading '0's.
C7_Sealed ==
    pc \in {"mined", "idle"} =>
        /\ block_hash = calculate_hash(new_block.header)
        /\ \A z \in LeadingZeros(hashed, new_block.header) :
               z >= new_block.header.difficulty
        /\ last.op = "mine_block" => last.ret = calculate_hash(new_block.header)

C7_Witness ==
    /\ pc = "idle"
    /\ last.op = "mine_block"
    /\ start.difficulty = HashLen
    /\ start.nonce = MaxNonce
    /\ new_block.header.timestamp # start.timestamp

\* C8: mine_block on a header of difficulty 0..6 returns, from whatever
\* nonce it starts, the largest included.
C8_Terminates ==
    (pc = "mining" /\ new_block.header.difficulty <= TestedDifficulty)
        ~> (pc = "mined")

C8_Witness ==
    /\ pc = "mined"
    /\ start.difficulty \in 1..TestedDifficulty
    /\ start.nonce = MaxNonce
    /\ new_block.header.nonce < start.nonce

\* C9, as claimed: every mining run of the ledger returns, whatever the
\* difficulty.
C9_MiningAlwaysReturns == (pc = "mining") ~> (pc = "mined")

\* C9, amended: the mining runs of a ledger of difficulty 0..6 return; the
\* mining run of Blockchain::new at a difficulty above 64, the length of a
\* digest, never does.
C9_MiningReturnsWhenSolvable ==
    /\ (pc = "mining" /\ difficulty <= TestedDifficulty) ~> (pc = "mined")
    /\ [](difficulty > HashLen => pc = "mining")

C9_Witness ==
    /\ call.f = MinePending
    /\ pc = "mined"
    /\ difficulty = TestedDifficulty
    /\ new_block.header.nonce > 0

\* the chain c with the parent hash of its block i replaced by v
Tampered(c, i, v) == [c EXCEPT ![i].header.parent_hash = v]

\* the values a parent hash is replaced with
ParentHashValues(c) ==
    {ZeroHash, <<>>, calculate_hash(c[1].header), calculate_hash(c[Len(c)].header)}

\* the chain has just changed: new or a successful mine_pending_transactions
\* has returned, and nothing was called since (every chain the ledger
\* reaches is first seen in such a state)
ChainChanged ==
    /\ call.f = "none"
    /\ \/ last.op = "new"
       \/ last.op = MinePending /\ IsOk(last.ret)

\* C10, as claimed: replacing the parent hash of any block of a reachable
\* chain, of whatever length, by another value makes is_chain_valid false.
C10_TamperDetected ==
    ChainChanged =>
        \A i \in 1..Len(chain) :
            \A v \in ParentHashValues(chain) \ {chain[i].header.parent_hash} :
                is_chain_valid(Tampered(chain, i, v), hashed) = {FALSE}

\* C10, amended: it makes is_chain_valid false on a chain of two blocks or
\* more, and leaves it true on a chain of one block.
C10_TamperDetectedFromTwoBlocks ==
    ChainChanged =>
        \A i \in 1..Len(chain) :
            \A v \in ParentHashValues(chain) \ {chain[i].header.parent_hash} :
                is_chain_valid(Tampered(chain, i, v), hashed)
                    = IF Len(chain) >= 2 THEN {FALSE} ELSE {TRUE}

C10_Witness == ChainChanged /\ Len(chain) >= 3 /\ difficulty = TestedDifficulty

\* C11, as claimed: on any chain, tampered ones included, is_chain_valid is
\* true exactly when the chain is linked and every block, the first
\* included, meets its difficulty target.
C11_ValidIffInvariants ==
    last.op = "is_chain_valid" =>
        last.ret.valid = (Linked(chain) /\ MeetTargets(chain, hashed, 1))

\* C11, amended: is_chain_valid is true exactly when the chain is linked
\* and every block after the first meets its difficulty target; the first
\* block is not tested.
C11_ValidIffInvariantsAfterFirst ==
    last.op = "is_chain_valid" =>
        last.ret.valid = (Linked(chain) /\ MeetTargets(chain, hashed, 2))

C11_Witness ==
    /\ last.op = "is_chain_valid"
    /\ Len(chain) >= 3
    /\ last.ret.valid
    /\ ~MeetTargets(chain, hashed, 1)

\* the transaction lists and counts written over those of a block: no
\* transaction, each transaction alone, and a transaction with another id
\* and another signature
Bodies ==
    { [transactions |-> txs, transaction_count |-> k] :
        txs \in {<<>>} \cup { <<tx>> : tx \in Transactions }
                \cup { <<[tx EXCEPT !.txn_id = ZeroHash, !.signature = <<>>]>> :
                         tx \in Transactions },
        k \in {0, 7} }

\* the chains got from c by writing the transactions and the count of one
\* block, the headers left as they are
BodyTampered(c) ==
    { [c EXCEPT ![i].transactions = b.transactions,
                ![i].transaction_count = b.transaction_count] :
        i \in 1..Len(c), b \in Bodies }

\* C12: is_chain_valid reads headers only: a chain gets the result it got,
\* true or false, when the transactions, the count, the ids and the
\* signatures of one of its blocks are replaced and its headers kept.
C12_StructuralOnly ==
    last.op = "is_chain_valid" =>
        \A c \in BodyTampered(chain) :
            is_chain_valid(c, hashed) = {last.ret.valid}

C12_Witness ==
    /\ last.op = "is_chain_valid"
    /\ Len(chain) >= 3
    /\ last.ret.valid
    /\ \E c \in BodyTampered(chain) :
          /\ c[2].header.merkle_root # calculate_merkle_root(c[2].transactions)
          /\ c[2].transaction_count # Len(c[2].transactions)
          /\ is_chain_valid(c, hashed) = {TRUE}

\* the transactions of the blocks of c, in chain order
RECURSIVE ChainTransactions(_)
ChainTransactions(c) ==
    IF c = <<>> THEN <<>> ELSE Head(c).transactions \o ChainTransactions(Tail(c))

\* a step in which mine_pending_transactions returns Ok
MineReturns == call.f = MinePending /\ pc = "mined" /\ call'.f = "none"

\* C13: when mine_pending_transactions returns Ok, the chain is the chain
\* of before with one block more; that block holds the whole pool in the
\* order of submission, has the height of the previous last block plus 1
\* and the hash of its header as parent hash, and the digest returned is the
\* hash of the header of the new block.
C13_MinedBlock ==
    [][ MineReturns =>
          LET latest_block == chain[Len(chain)]
              b == chain'[Len(chain')]
          IN  /\ Len(chain') = Len(chain) + 1
              /\ SubSeq(chain', 1, Len(chain)) = chain
              /\ b.transactions = pending
              /\ ChainTransactions(chain') = submitted
              /\ b.header.block_height = latest_block.header.block_height + 1
              /\ b.header.parent_hash = calculate_hash(latest_block.header)
              /\ last'.ret = Ok(calculate_hash(b.header)) ]_vars

C13_Witness ==
    /\ call.f = "none"
    /\ last.op = MinePending
    /\ IsOk(last.ret)
    /\ Len(chain) >= 2
    /\ Len(chain[Len(chain)].transactions) = 2
    /\ chain[Len(chain)].transactions[1] # chain[Len(chain)].transactions[2]

\* C14: while mine_pending_transactions runs, its mining loop included,
\* the chain and the pool are what they were at the call; and in every
\* state each submitted transaction is either in a block of the chain or in
\* the pool, never in both and never in neither, so no state shows the new
\* block in the chain with the pool still full, or the pool cleared with
\* the block not yet in the chain.
C14_Atomic ==
    /\ [](ChainTransactions(chain) \o pending = submitted)
    /\ [](call.f = MinePending =>
            /\ new_block.transactions = pending
            /\ new_block.header.block_height = Len(chain)
            /\ \A i \in 1..Len(chain) : chain[i] # new_block)
    /\ [][call'.f = MinePending => chain' = chain /\ pending' = pending]_vars

C14_Witness ==
    /\ call.f = MinePending
    /\ pc = "mining"
    /\ new_block.header.nonce > 0
    /\ Len(pending) = 2
    /\ Len(chain) >= 1

\* C15: add_transaction(tx) puts tx at the end of the pool, which grows by
\* exactly one, also when tx is already in the pool or in a block of the
\* chain; the chain and the difficulty stay as they are.
C15_Submit ==
    [][ submitted' # submitted =>
          LET tx == submitted'[Len(submitted')]
          IN  /\ last' = Returned("add_transaction", tx, Unit)
              /\ pending' = pending \o <<tx>>
              /\ Len(pending') = Len(pending) + 1
              /\ chain' = chain
              /\ difficulty' = difficulty ]_vars

C15_Witness ==
    /\ last.op = "add_transaction"
    /\ pending = <<last.arg>>
    /\ \E i \in 1..Len(chain) : chain[i].transactions = <<last.arg>>

\* C16: in every step of the ledger, the calls that only read it included,
\* the chain of before is a prefix of the chain of after: no block is
\* removed, moved or changed; a step in which mine_pending_transactions
\* returns Ok adds exactly one block, the return of new adds the genesis
\* block, and every other step leaves the chain as it is.
C16_AppendOnly ==
    [][ /\ Len(chain') >= Len(chain)
        /\ SubSeq(chain', 1, Len(chain)) = chain
        /\ Len(chain') = IF MineReturns \/ (call.f = "new" /\ call'.f = "none")
                         THEN Len(chain) + 1 ELSE Len(chain) ]_vars

C16_Witness ==
    /\ last.op \in {"is_chain_valid", "get_stats", "display_block_in_terminal"}
    /\ Len(chain) >= 3
    /\ mined = 2

\* C17: once new has returned the chain is never empty, get_latest_block
\* gives a block, and mine_pending_transactions never takes its "No blocks
\* in chain" branch: the only error it returns is the one of the empty pool.
C17_NeverEmpty ==
    call.f # "new" =>
        /\ chain # <<>>
        /\ get_latest_block(chain) # NoBlock
        /\ get_latest_block(chain) = chain[Len(chain)]
        /\ MineError(pending, chain) \in {"", EmptyPool}
        /\ (last.op = MinePending /\ ~IsOk(last.ret)) => last.ret = Err(EmptyPool)

C17_Witness ==
    /\ last.op = MinePending
    /\ ~IsOk(last.ret)
    /\ Len(chain) = 1
    /\ get_latest_block(chain).header.block_height = 0

\* C18: a header of difficulty 0 meets its target whatever its hash and its
\* other fields, and mine_block on such a header returns at its first test:
\* it hashes the header once and leaves the nonce and the timestamp alone.
C18_ZeroDifficulty ==
    start.difficulty = 0 =>
        /\ \A z \in 0..HashLen : meets_difficulty_target(new_block.header, z)
        /\ new_block.header = start
        /\ pc = "mining" => hashed = {}
        /\ pc # "mining" =>
              /\ block_hash = calculate_hash(start)
              /\ Cardinality(hashed) = 1

C18_Witness ==
    /\ pc = "idle"
    /\ last.op = "mine_block"
    /\ start.difficulty = 0
    /\ start.nonce = MaxNonce
    /\ new_block.transactions # <<>>

\* C19: a turn of the loop of mine_block in which the header misses its
\* target sets the nonce to 0 and the timestamp to the clock reading of that
\* moment when the nonce is the largest one, and otherwise adds 1 to the
\* nonce and keeps the timestamp; the nonce never leaves 0..MaxNonce.
C19_NonceWrap ==
    /\ [](pc = "mining" => new_block.header.nonce \in 0..MaxNonce)
    /\ [][ (pc = "mining" /\ pc' = "mining") =>
              LET h == new_block.header
                  g == new_block'.header
              IN  /\ IF h.nonce = MaxNonce
                     THEN g.nonce = 0 /\ g.timestamp = now' /\ now' >= now
                     ELSE g.nonce = h.nonce + 1 /\ g.timestamp = h.timestamp
                  /\ g = [h EXCEPT !.nonce = g.nonce, !.timestamp = g.timestamp]
          ]_vars

C19_Witness ==
    /\ pc = "mining"
    /\ start.nonce = MaxNonce
    /\ new_block.header.nonce = 0
    /\ new_block.header.timestamp # start.timestamp

\* C20: the block Block::new returns holds the transactions it was given
\* and, as the merkle root of its header, 64 characters '0' when it was
\* given none, and otherwise the digest of their stored txn_id fields put
\* one after the other in the order of the list.
C20_MerkleRoot ==
    last.op = "Block::new" =>
        LET txs == last.arg.transactions
            ids == [i \in 1..Len(txs) |-> txs[i].txn_id]
        IN  /\ last.ret.transactions = txs
            /\ last.ret.header.merkle_root =
                   IF Len(txs) = 0 THEN Repeat("0", 64)
                   ELSE HexDigest(CatAll(ids))
            /\ StrLen(last.ret.header.merkle_root) = 64

C20_Witness ==
    /\ last.op = "Block::new"
    /\ Len(last.arg.transactions) = 2
    /\ last.arg.transactions[1].txn_id # <<>>
    /\ last.arg.transactions[2].txn_id = <<>>
    /\ last.ret.header.merkle_root = HexDigest(last.arg.transactions[1].txn_id)

\* C21: verify_signature returns an error exactly when the signature string
\* is not hex (an odd number of characters or a character that is no hex
\* digit); on a hex string it returns Ok(true) exactly when the string is
\* the hex of the 64 bytes of the signature of the signing message under
\* the key, and Ok(false) otherwise (another length, or 64 bytes that do
\* not verify); the transaction is left as it was.
C21_VerifySignature ==
    /\ [](last.op = "verify_signature" =>
            LET tx == pending[1]
                cs == Chars(tx.signature)
                hex == Len(cs) % 2 = 0 /\ \A i \in 1..Len(cs) : IsHexChar(cs[i])
                signed == tx.signature
                            = SignatureHex(last.arg.public_key, get_signing_message(tx))
            IN  /\ ("err" \in DOMAIN last.ret) = ~hex
                /\ hex => last.ret = Ok(signed)
                /\ hex /\ Len(cs) # SignatureHexLen => last.ret = Ok(FALSE))
    /\ [][pending' = pending]_vars

C21_Witness ==
    /\ last.op = "verify_signature"
    /\ Len(Chars(pending[1].signature)) = SignatureHexLen
    /\ pending[1].signature # SignatureHex(1, get_signing_message(pending[1]))
    /\ last.arg.public_key = 1
    /\ last.ret = Ok(FALSE)

\* C22: the record Transaction::new returns holds the arguments, the fixed
\* fee, and as id the hash of the record; called with another signature at
\* the same instant it returns a record with the same id.
C22_Create ==
    last.op = "Transaction::new" =>
        LET tx == last.ret
            a == last.arg
        IN  /\ tx.fee = TRANSACTION_FEE
            /\ tx.txn_id = TransactionHash(tx)
            /\ <<tx.from, tx.to, tx.amount, tx.nonce, tx.signature, tx.timestamp>>
                  = <<a.from, a.to, a.amount, a.nonce, a.signature, now>>
            /\ \A signature \in Signatures \cup {Repeat("a", 10000)} :
                  TransactionNew(a.from, a.to, a.amount, a.nonce, signature, now).txn_id
                      = tx.txn_id

C22_Witness ==
    /\ last.op = "Transaction::new"
    /\ last.arg.amount = LargestAmount
    /\ last.arg.from = <<>>
    /\ last.arg.to = Repeat("a", 10000)
    /\ last.arg.signature # <<>>

\* the six fields calculate_hash reads
HashedFields(tx) == <<tx.from, tx.to, tx.amount, tx.fee, tx.nonce, tx.timestamp>>

\* the records got from tx by writing one of the six fields
OneFieldChanged(tx) ==
    ({ [tx EXCEPT !.from = v] : v \in Froms }
     \cup { [tx EXCEPT !.to = v] : v \in Tos }
     \cup { [tx EXCEPT !.amount = v] : v \in Amounts \cup {1001} }
     \cup { [tx EXCEPT !.fee = v] : v \in Fees }
     \cup { [tx EXCEPT !.nonce = v] : v \in Nonces }
     \cup { [tx EXCEPT !.timestamp = v] : v \in 0..(MaxClock + 1) }) \ {tx}

\* the records with any six fields
AnyFields ==
    { [txn_id |-> <<>>, from |-> from, to |-> to, amount |-> amount, fee |-> fee,
       nonce |-> nonce, timestamp |-> t, signature |-> <<>>] :
        from \in Froms, to \in Tos, amount \in Amounts, fee \in Fees,
        nonce \in Nonces, t \in 0..MaxClock }

\* C23: calculate_hash returns the same digest for every record with the
\* same from, to, amount, fee, nonce and timestamp, whatever its id and
\* signature; a record that differs in exactly one of the six fields gives
\* other bytes to the hash function, and so gets another digest.
C23_HashSensitive ==
    last.op = "calculate_hash" =>
        LET tx == last.arg
        IN  /\ \A id \in {<<>>, ZeroHash}, signature \in Signatures :
                  TransactionHash([tx EXCEPT !.txn_id = id, !.signature = signature])
                      = last.ret.digest
            /\ \A other \in OneFieldChanged(tx) :
                  /\ TransactionBytes(other) # TransactionBytes(tx)
                  /\ TransactionHash(other) # last.ret.digest

C23_Witness ==
    /\ last.op = "calculate_hash"
    /\ last.arg.from = Str(<<"a">>)
    /\ last.arg.to = Str(<<"b", "c">>)
    /\ last.arg.fee # TRANSACTION_FEE
    /\ [last.arg EXCEPT !.from = Str(<<"a", "b">>)] \in OneFieldChanged(last.arg)

\* C24: a record whose six fields differ in any way, in several fields at
\* once included, from those of the record hashed gets another digest.
C24_CollisionFree ==
    last.op = "calculate_hash" =>
        \A other \in AnyFields :
            HashedFields(other) # HashedFields(last.arg) =>
                TransactionHash(other) # last.ret.digest

\* the u32 n as hi * 65536 + lo
Halves(n) == [hi |-> n \div 65536, lo |-> n % 65536]

\* C25: the transaction_count of the block Block::new returns, and of every
\* block of the chain, is the length of the list of its transactions,
\* however long the list.
C25_CountIsLength ==
    /\ last.op = "Block::new" =>
          Halves(last.ret.transaction_count) = VecLen(last.ret.transactions)
    /\ \A i \in 1..Len(chain) :
          Halves(chain[i].transaction_count) = VecLen(chain[i].transactions)

\* C26: in every reachable state the block at index i of the chain, counted
\* from 0, has block_height i; the candidate mine_pending_transactions is
\* mining has the height of the place it will take.
C26_HeightIsIndex ==
    /\ \A i \in 1..Len(chain) : chain[i].header.block_height = i - 1
    /\ call.f = MinePending => new_block.header.block_height = Len(chain)

C26_Witness ==
    /\ Len(chain) = 2
    /\ chain[2].header.block_height = 1
    /\ call.f = MinePending
    /\ new_block.header.block_height = 2

\* C27: no step changes the difficulty of the ledger, and in every
\* reachable state every block of the chain, and the block being mined,
\* carries that difficulty in its header.
C27_DifficultyFixed ==
    /\ [][difficulty' = difficulty]_vars
    /\ [](\A i \in 1..Len(chain) : chain[i].header.difficulty = difficulty)
    /\ [](call.f \in {"new", MinePending} => new_block.header.difficulty = difficulty)
    /\ []((last.op = "new" \/ call.f = "new") =>
             difficulty = (IF call.f = "new" THEN call.arg ELSE last.arg).difficulty)

C27_Witness ==
    /\ Len(chain) >= 3
    /\ difficulty = TestedDifficulty
    /\ chain[3].header.difficulty = TestedDifficulty
    /\ last.op = "get_stats"
    /\ last.ret.difficulty = TestedDifficulty

C29_MineFrame ==
    /\ [](LET b == IF call.f = "mine_block" THEN call.arg ELSE last.arg
          IN  new_block = [b EXCEPT !.header.nonce = new_block.header.nonce,
                                    !.header.timestamp = new_block.header.timestamp])
    /\ [][new_block'.header.timestamp # new_block.header.timestamp =>
             pc = "mining" /\ new_block.header.nonce = MaxNonce]_vars
    /\ [](pc = "mining" /\ new_block.header.timestamp # start.timestamp =>
             \E e \in hashed :
                 /\ e.input = HeaderBytes([start EXCEPT !.nonce = MaxNonce])
                 /\ ~e.met)

C29_Witness ==
    /\ last.op = "mine_block"
    /\ new_block.header.nonce > start.nonce
    /\ new_block.header.timestamp = start.timestamp
    /\ now > start.timestamp
    /\ new_block.transactions # <<>>

\* the header h was hashed and missed its target
Missed(h) == \E e \in hashed : e.input = HeaderBytes(h) /\ ~e.met

\* the search has gone past the largest nonce
Wrapped == Missed([start EXCEPT !.nonce = MaxNonce])

\* C30: mine_block tests the header it is called with before it changes the
\* nonce, and skips no nonce: as long as it has not gone past the largest
\* nonce, every nonce from the one of the call up to the current one was
\* tested and missed the target, so the nonce it returns with is the smallest
\* that meets it; once past the largest nonce, every nonce from the one of
\* the call to the largest was tested, and so was every nonce from 0 up to
\* the current one.  It returns the hash of the header that met the target.
C30_FirstFit ==
    /\ [](pc = "mining" /\ ~Wrapped =>
             /\ new_block.header.nonce >= start.nonce
             /\ new_block.header.timestamp = start.timestamp
             /\ \A n \in start.nonce..(new_block.header.nonce - 1) :
                   Missed([start EXCEPT !.nonce = n]))
    /\ [](pc = "mining" /\ Wrapped =>
             /\ \A n \in start.nonce..MaxNonce : Missed([start EXCEPT !.nonce = n])
             /\ \A n \in 0..(new_block.header.nonce - 1) :
                   Missed([new_block.header EXCEPT !.nonce = n]))
    /\ [][pc = "mining" /\ pc' = "mined" =>
             /\ new_block' = new_block
             /\ block_hash' = calculate_hash(new_block.header)
             /\ ~Missed(new_block.header)
             /\ \E e \in hashed' :
                    e.input = HeaderBytes(new_block.header) /\ e.met]_vars

C30_Witness ==
    /\ pc = "mined"
    /\ start.nonce = 0
    /\ new_block.header.nonce = MaxNonce
    /\ new_block.header.timestamp = start.timestamp
    /\ new_block.header.difficulty = TestedDifficulty

\* C31: no submitted transaction is lost or duplicated: in every state of
\* the ledger, the transactions of the blocks in chain order followed by the
\* pool are the transactions submitted so far in the order of submission, so
\* the k-th submission is at exactly one place, the k-th of the blocks' lists
\* taken together or, past their end, of the pool.
C31_Conservation ==
    LET inBlocks == ChainTransactions(chain)
    IN  /\ inBlocks \o pending = submitted
        /\ Len(inBlocks) + Len(pending) = Len(submitted)
        /\ \A k \in 1..Len(submitted) :
              IF k <= Len(inBlocks)
              THEN inBlocks[k] = submitted[k]
              ELSE pending[k - Len(inBlocks)] = submitted[k]
        /\ chain # <<>> => chain[1].transactions = <<>>

C31_Witness ==
    /\ Len(chain) = 2
    /\ Len(submitted) = 2
    /\ chain[2].transactions = <<submitted[1]>>
    /\ pending = <<submitted[2]>>
    /\ submitted[1] # submitted[2]
    /\ call.f = "none"

\* the chains got from c by writing one of the six fields calculate_hash
\* reads in the header of the block of index i
HeaderTampered(c, i) ==
    LET h == c[i].header
    IN  { [c EXCEPT ![i].header = g] :
            g \in ({ [h EXCEPT !.block_height = v] : v \in 0..(Len(c) + 1) }
                   \cup { [h EXCEPT !.parent_hash = v] : v \in ParentHashValues(c) }
                   \cup { [h EXCEPT !.merkle_root = v] :
                            v \in {ZeroHash, <<>>}
                                  \cup { calculate_merkle_root(<<tx>>) : tx \in Transactions } }
                   \cup { [h EXCEPT !.timestamp = v] : v \in 0..(MaxClock + 1) }
                   \cup { [h EXCEPT !.difficulty = v] : v \in Difficulties \cup {1} }
                   \cup { [h EXCEPT !.nonce = v] : v \in 0..MaxNonce }) \ {h} }

\* C32: with a hash that is injective on its input, writing one of the six
\* hashed fields of the header of a block that is not the last one, and that
\* the next block is chained to, gives the header another hash and makes
\* is_chain_valid false.  Writing one in the header of the last block of a
\* valid chain makes is_chain_valid false exactly when that block no longer
\* carries the hash of the block before it or its hash misses its target; on
\* a chain of one block, which gets neither test, it stays true.
C32_HeaderTamper ==
    last.op = "is_chain_valid" =>
        LET n == Len(chain)
        IN  /\ \A i \in 1..(n - 1) :
                  chain[i + 1].header.parent_hash = calculate_hash(chain[i].header) =>
                      \A t \in HeaderTampered(chain, i) :
                          /\ calculate_hash(t[i].header) # calculate_hash(chain[i].header)
                          /\ is_chain_valid(t, hashed) = {FALSE}
            /\ last.ret.valid =>
                  \A t \in HeaderTampered(chain, n) :
                      is_chain_valid(t, hashed)
                        = IF n = 1 THEN {TRUE}
                          ELSE IF t[n].header.parent_hash # calculate_hash(t[n - 1].header)
                               THEN {FALSE}
                          ELSE { z >= t[n].header.difficulty :
                                   z \in LeadingZeros(hashed, t[n].header) }

C32_Witness ==
    /\ last.op = "is_chain_valid"
    /\ last.ret.valid
    /\ Len(chain) = 3
    /\ \E t \in HeaderTampered(chain, 2) :
          /\ t[2].header.difficulty # chain[2].header.difficulty
          /\ t[3].header.parent_hash # calculate_hash(t[2].header)
    /\ \E t \in HeaderTampered(chain, 3) :
          /\ t[3].header.merkle_root # chain[3].header.merkle_root
          /\ is_chain_valid(t, hashed) = {TRUE}
    /\ \E t \in HeaderTampered(chain, 3) :
          /\ t[3].header.parent_hash = chain[3].header.parent_hash
          /\ FALSE \in is_chain_valid(t, hashed)

\* C33: records whose (from, to, amount, fee, nonce, timestamp) differ have
\* different signing messages, so the signature with which verify_signature
\* returns Ok(true) on a record does not make it return Ok(true), with the
\* same public key, on a record with other fields.
C33_Canonical ==
    last.op = "verify_signature" =>
        LET tx == pending[1]
        IN  \A record \in SignedRecords :
                HashedFields(record) # HashedFields(tx) =>
                    /\ get_signing_message(record) # get_signing_message(tx)
                    /\ last.ret = Ok(TRUE) =>
                          verify_signature([record EXCEPT !.signature = tx.signature],
                                           last.arg.public_key) # Ok(TRUE)

====
